---- MODULE Spec2Model ----
(***************************************************************************)
(* A model of lokalise-sync-cli (src/src/lokalise.ts).                     *)
(*                                                                         *)
(* Strings are sequences of one-character strings, so that the code's      *)
(* string operations (includes, startsWith, replace, split, sort) are      *)
(* computed character by character.  A JavaScript object is the sequence   *)
(* of its <<key, value>> entries in property order (integer-like keys in   *)
(* ascending numeric order first, then the other keys in insertion         *)
(* order), which is the order Object.keys and JSON.stringify follow.  The  *)
(* text of a locale file is the sequence of its entries in file order.     *)
(***************************************************************************)
EXTENDS Integers, Sequences, FiniteSets, TLC

VARIABLES
    \* cleanupJson applied to an object (SpecNorm)
    json, allowedKeys, cleanJson, cleanJson2, normPc,
    \* the reconciliation of pullProject (SpecRecon)
    localTranslations, downloaded, pulledLocales, reconPc,
    \* the project's configured default locale (SpecRecon, SpecClean)
    defaultLocale,
    \* one project's locale directory and source files (SpecClean, SpecUnused)
    localesDir, dirBefore, cleanRuns, sources, scan,
    \* a run of the pull, push or sync command over the projects (Spec)
    cmd, proc, cur, mainPc, push, timers, requests, tooSoon, lastDelayed,
    steps, disk, disk0

normVars == <<json, allowedKeys, cleanJson, cleanJson2, normPc>>
reconVars == <<localTranslations, downloaded, pulledLocales, reconPc>>
dirVars == <<localesDir, dirBefore, cleanRuns, sources, scan>>
runVars == <<cmd, proc, cur, mainPc, push, timers, requests, tooSoon, lastDelayed,
             steps, disk, disk0>>
vars == <<normVars, reconVars, defaultLocale, dirVars, runVars>>

\* The scan result is kept as a sequence: empty until findUnusedInProject ran.
NoScan == <<>>

----------------------------------------------------------------------------
(* Strings *)

\* The backtick character, which a TLA+ string literal cannot hold.
Backtick == "U+0060"

\* The UTF-16 code unit of each character the model uses.
CharCode(c) ==
    CASE c = "\t" -> 9   [] c = "\n" -> 10  [] c = " " -> 32
      [] c = "\"" -> 34  [] c = "$" -> 36   [] c = "'" -> 39
      [] c = "." -> 46   [] c = "0" -> 48   [] c = "1" -> 49
      [] c = "9" -> 57   [] c = Backtick -> 96   [] c = "a" -> 97
      [] c = "b" -> 98   [] c = "c" -> 99   [] c = "x" -> 120
      [] c = "{" -> 123  [] c = "}" -> 125

\* s < t in the order of Array.prototype.sort without a comparator:
\* by code units, a proper prefix first.
RECURSIVE StrLess(_, _)
StrLess(s, t) ==
    IF t = <<>> THEN FALSE
    ELSE IF s = <<>> THEN TRUE
    ELSE IF CharCode(Head(s)) # CharCode(Head(t))
         THEN CharCode(Head(s)) < CharCode(Head(t))
         ELSE StrLess(Tail(s), Tail(t))

\* String.prototype.startsWith / endsWith
StartsWith(s, p) == Len(p) <= Len(s) /\ SubSeq(s, 1, Len(p)) = p
EndsWith(s, p) == Len(p) <= Len(s) /\ SubSeq(s, Len(s) - Len(p) + 1, Len(s)) = p

\* String.prototype.includes
Includes(s, p) ==
    \E i \in 1..(Len(s) - Len(p) + 1) : SubSeq(s, i, i + Len(p) - 1) = p

\* The characters the regular expression class \s matches.
IsWhitespace(c) == c \in {" ", "\t", "\n"}

----------------------------------------------------------------------------
(* JavaScript objects with string keys *)

IsDigit(c) == c \in {"0", "1", "9"}

\* A key that is a canonical array index ("0", "9", "10", not "01"):
\* such keys come first in property order, in ascending numeric order.
IsArrayIndex(k) ==
    /\ Len(k) >= 1
    /\ \A i \in 1..Len(k) : IsDigit(k[i])
    /\ (Len(k) > 1 => k[1] # "0")

RECURSIVE NumValue(_)
NumValue(k) ==
    IF k = <<>> THEN 0
    ELSE 10 * NumValue(SubSeq(k, 1, Len(k) - 1)) + (CharCode(k[Len(k)]) - 48)

\* Object.keys
ObjKeys(o) == [i \in 1..Len(o) |-> o[i][1]]
KeySet(o) == {o[i][1] : i \in 1..Len(o)}
ObjHas(o, k) == k \in KeySet(o)
ObjGet(o, k) == o[CHOOSE i \in 1..Len(o) : o[i][1] = k][2]

\* o[k] = v: an existing property keeps its place; a new integer-like key takes
\* its numeric place among the integer-like keys; another new key goes last.
ObjSet(o, k, v) ==
    IF ObjHas(o, k)
    THEN [i \in 1..Len(o) |-> IF o[i][1] = k THEN <<k, v>> ELSE o[i]]
    ELSE IF IsArrayIndex(k)
    THEN LET before == {i \in 1..Len(o) :
                           IsArrayIndex(o[i][1]) /\ NumValue(o[i][1]) < NumValue(k)}
             n == Cardinality(before)
         IN SubSeq(o, 1, n) \o <<<<k, v>>>> \o SubSeq(o, n + 1, Len(o))
    ELSE Append(o, <<k, v>>)

\* delete o[k]
ObjDelete(o, k) == SelectSeq(o, LAMBDA e : e[1] # k)

\* JSON.parse of a locale file: the entries are assigned in file order.
RECURSIVE ParseInto(_, _)
ParseInto(o, raw) ==
    IF raw = <<>> THEN o
    ELSE ParseInto(ObjSet(o, Head(raw)[1], Head(raw)[2]), Tail(raw))
JSONparse(raw) == ParseInto(<<>>, raw)

\* JSON.stringify(o, null, 2) + EOL: the entries in property order.
JSONstringify(o) == [i \in 1..Len(o) |-> o[i]]

----------------------------------------------------------------------------
(* cleanupJson *)

\* keys.sort(): insertion of each key in its place in code-unit order.
RECURSIVE SortInsert(_, _)
SortInsert(sorted, k) ==
    IF sorted = <<>> THEN <<k>>
    ELSE IF StrLess(k, Head(sorted)) THEN <<k>> \o sorted
    ELSE <<Head(sorted)>> \o SortInsert(Tail(sorted), k)
RECURSIVE SortKeys(_)
SortKeys(ks) ==
    IF ks = <<>> THEN <<>>
    ELSE SortInsert(SortKeys(SubSeq(ks, 1, Len(ks) - 1)), ks[Len(ks)])

\* value.replace(/\t+/g, " "): every run of tabs becomes one space.
RECURSIVE ReplaceTabs(_)
ReplaceTabs(v) ==
    IF v = <<>> THEN <<>>
    ELSE IF Head(v) = "\t"
         THEN IF Len(v) > 1 /\ v[2] = "\t"
              THEN ReplaceTabs(Tail(v))
              ELSE <<" ">> \o ReplaceTabs(Tail(v))
         ELSE <<Head(v)>> \o ReplaceTabs(Tail(v))

\* value.replace(/^\s+/g, "")
RECURSIVE StripLeading(_)
StripLeading(v) ==
    IF v # <<>> /\ IsWhitespace(Head(v)) THEN StripLeading(Tail(v)) ELSE v

\* value.replace(/\s+$/g, "")
RECURSIVE StripTrailing(_)
StripTrailing(v) ==
    IF v # <<>> /\ IsWhitespace(v[Len(v)])
    THEN StripTrailing(SubSeq(v, 1, Len(v) - 1))
    ELSE v

\* A variant of the left trim that drops a single character: the regular
\* expression without its + quantifier.
CleanLeftOnce(v) == IF StartsWith(v, <<" ">>) THEN Tail(v) ELSE v

\* The three guarded replacements cleanupJson applies to a value.
CleanTabs(v) == IF Includes(v, <<"\t">>) THEN ReplaceTabs(v) ELSE v
CleanLeft(v) == IF StartsWith(v, <<" ">>) THEN StripLeading(v) ELSE v
CleanRight(v) == IF EndsWith(v, <<" ">>) THEN StripTrailing(v) ELSE v
CleanValue(v) == CleanRight(CleanLeft(CleanTabs(v)))

\* The reduce of cleanupJson over the sorted keys.
RECURSIVE CleanReduce(_, _, _, _)
CleanReduce(acc, keys, obj, allowed) ==
    IF keys = <<>> THEN acc
    ELSE LET key == Head(keys)
         IN IF key \notin allowed
            THEN CleanReduce(acc, Tail(keys), obj, allowed)
            ELSE CleanReduce(ObjSet(acc, key, CleanValue(ObjGet(obj, key))),
                             Tail(keys), obj, allowed)

cleanupJson(obj, allowed) == CleanReduce(<<>>, SortKeys(ObjKeys(obj)), obj, allowed)

----------------------------------------------------------------------------
(* Bounds and input alphabets *)

\* The most properties an input object or a locale file holds.
MaxKeys == 2
\* The most characters the values of one input hold in total.
MaxChars == 4

\* Keys of the input objects: two that sort against insertion order and two
\* integer-like ones whose numeric order is not their code-unit order.
NormKeys == {<<"a">>, <<"b">>, <<"9">>, <<"1", "0">>}
ValueChars == {"x", " ", "\t", "\n"}

RECURSIVE SumLen(_)
SumLen(o) == IF o = <<>> THEN 0 ELSE Len(Head(o)[2]) + SumLen(Tail(o))

----------------------------------------------------------------------------
(* SpecNorm: cleanupJson as a function of its two arguments *)

InitNorm ==
    /\ json = <<>>
    /\ allowedKeys = {}
    /\ cleanJson = <<>>
    /\ cleanJson2 = <<>>
    /\ normPc = "input"

\* The caller builds the object: json[k] = "".
NormAddKey(k) ==
    /\ normPc = "input"
    /\ ~ObjHas(json, k)
    /\ Len(json) < MaxKeys
    /\ json' = ObjSet(json, k, <<>>)
    /\ UNCHANGED <<allowedKeys, cleanJson, cleanJson2, normPc>>

\* The caller builds the object: json[k] += c.
NormType(k, c) ==
    /\ normPc = "input"
    /\ ObjHas(json, k)
    /\ SumLen(json) < MaxChars
    /\ json' = ObjSet(json, k, Append(ObjGet(json, k), c))
    /\ UNCHANGED <<allowedKeys, cleanJson, cleanJson2, normPc>>

\* cleanupJson(json, allowed), and cleanupJson of its result.  A key that is
\* not a property of json is allowed in every input drawn here.
NormCleanup(allowed) ==
    /\ normPc = "input"
    /\ (NormKeys \ KeySet(json)) \subseteq allowed
    /\ allowedKeys' = allowed
    /\ cleanJson' = cleanupJson(json, allowed)
    /\ cleanJson2' = cleanupJson(cleanJson', allowed)
    /\ normPc' = "cleaned"
    /\ UNCHANGED json

InitReconIdle ==
    /\ localTranslations = <<>>
    /\ downloaded = <<>>
    /\ pulledLocales = <<>>
    /\ reconPc = "idle"

InitRunIdle ==
    /\ cmd = "none"
    /\ proc = "idle"
    /\ cur = 1
    /\ mainPc = "idle"
    /\ push = <<>>
    /\ timers = <<>>
    /\ requests = <<>>
    /\ tooSoon = FALSE
    /\ lastDelayed = FALSE
    /\ steps = <<>>
    /\ disk = <<>>
    /\ disk0 = <<>>

InitDirIdle ==
    /\ localesDir = <<>>
    /\ dirBefore = <<>>
    /\ cleanRuns = 0
    /\ sources = <<>>
    /\ scan = NoScan

NextNorm ==
    \/ \E k \in NormKeys :
          NormAddKey(k) /\ UNCHANGED <<reconVars, defaultLocale, dirVars, runVars>>
    \/ \E k \in NormKeys, c \in ValueChars :
          NormType(k, c) /\ UNCHANGED <<reconVars, defaultLocale, dirVars, runVars>>
    \/ \E allowed \in SUBSET NormKeys :
          NormCleanup(allowed) /\ UNCHANGED <<reconVars, defaultLocale, dirVars, runVars>>

InitSpecNorm ==
    InitNorm /\ InitReconIdle /\ defaultLocale = "en" /\ InitDirIdle /\ InitRunIdle
SpecNorm == InitSpecNorm /\ [][NextNorm]_vars

NoWhitespaceAtEnds(v) ==
    v # <<>> => ~IsWhitespace(v[1]) /\ ~IsWhitespace(v[Len(v)])

\* C9: every value of the output of cleanupJson contains no tab and has no
\* leading and no trailing whitespace character of any kind.
C9_NoTabNoOuterWhitespace ==
    normPc = "cleaned" =>
        \A i \in 1..Len(cleanJson) :
            /\ "\t" \notin {cleanJson[i][2][j] : j \in 1..Len(cleanJson[i][2])}
            /\ NoWhitespaceAtEnds(cleanJson[i][2])

\* What the guards of cleanupJson do give: every value of the output contains
\* no tab and neither starts nor ends with a space character (a leading or
\* trailing newline stays when no space precedes or follows it).
NoTabNoOuterSpace ==
    normPc = "cleaned" =>
        \A i \in 1..Len(cleanJson) :
            LET v == cleanJson[i][2]
            IN /\ \A j \in 1..Len(v) : v[j] # "\t"
               /\ v # <<>> => v[1] # " " /\ v[Len(v)] # " "

\* C10: cleanupJson(cleanupJson(m, K), K) equals cleanupJson(m, K): the same
\* keys in the same order with the same values.
C10_Idempotent == normPc = "cleaned" => cleanJson2 = cleanJson

\* Witness of C10: the first pass dropped a key, cleaned a value and put two
\* remaining keys in another order than the input's.
C10_Witness ==
    /\ normPc = "cleaned"
    /\ Len(cleanJson) < Len(json)
    /\ \E i \in 1..Len(cleanJson) : cleanJson[i][2] # ObjGet(json, cleanJson[i][1])

----------------------------------------------------------------------------
(* pullProject: the reconciliation of the downloaded bundle *)

\* Fold o[k] = from[k] over a list of keys.
RECURSIVE CopyKeys(_, _, _)
CopyKeys(o, keys, from) ==
    IF keys = <<>> THEN o
    ELSE CopyKeys(ObjSet(o, Head(keys), ObjGet(from, Head(keys))), Tail(keys), from)

\* Fold delete o[k] over a list of keys.
RECURSIVE DeleteKeys(_, _)
DeleteKeys(o, keys) ==
    IF keys = <<>> THEN o ELSE DeleteKeys(ObjDelete(o, Head(keys)), Tail(keys))

\* Object.keys(localTranslations).filter((key) => !pulledKeys.has(key))
locallyAddedKeys(local, pulledDefaultLocale) ==
    SelectSeq(ObjKeys(local), LAMBDA k : ~ObjHas(pulledDefaultLocale, k))

\* [...pulledKeys].filter((key) => !localKeys.has(key))
locallyRemovedKeys(local, pulledDefaultLocale) ==
    SelectSeq(ObjKeys(pulledDefaultLocale), LAMBDA k : ~ObjHas(local, k))

\* The loop that deletes the locally removed keys: from every pulled locale.
\* A variant that deletes the removed keys from one locale only.
RemoveFromOne(pulled, removed) ==
    LET first == CHOOSE l \in DOMAIN pulled : TRUE
    IN [l \in DOMAIN pulled |->
           IF l = first THEN DeleteKeys(pulled[l], removed) ELSE pulled[l]]

RemoveEverywhere(pulled, removed) ==
    [l \in DOMAIN pulled |-> DeleteKeys(pulled[l], removed)]

\* pulledLocales after the two loops, given that the default locale was pulled.
Reconcile(local, pulled, dl) ==
    LET added == locallyAddedKeys(local, pulled[dl])
        removed == locallyRemovedKeys(local, pulled[dl])
        withAdded == [pulled EXCEPT ![dl] = CopyKeys(pulled[dl], added, local)]
    IN RemoveEverywhere(withAdded, removed)

\* pulledDefaultLocale == null
MissingDefaultLocale(pulled, dl) == dl \notin DOMAIN pulled

----------------------------------------------------------------------------
(* SpecRecon: the reconciliation as a function of the local reference, the   *)
(* bundle and the project's default locale                                  *)

Locales == {"en", "fr"}
ReconKeyList == <<<<"a">>, <<"b">>, <<"c">>>>
ReconValues == {<<"x">>, <<"y">>}

\* The object holding v under the i-th key where f[i] = <<v>>, without the
\* i-th key where f[i] = <<>>.
RECURSIVE ObjectFrom(_, _, _)
ObjectFrom(keys, f, i) ==
    IF i > Len(keys) THEN <<>>
    ELSE IF f[i] = <<>> THEN ObjectFrom(keys, f, i + 1)
    ELSE <<<<keys[i], f[i][1]>>>> \o ObjectFrom(keys, f, i + 1)

ReconObjects ==
    {ObjectFrom(ReconKeyList, f, 1) :
        f \in [1..Len(ReconKeyList) -> {<<v>> : v \in ReconValues} \cup {<<>>}]}
\* The other locales' translations differ from the reference's texts.
ReconTranslated ==
    {ObjectFrom(ReconKeyList, f, 1) :
        f \in [1..Len(ReconKeyList) -> {<<<<"y">>>>, <<>>}]}

InitRecon ==
    /\ localTranslations \in ReconObjects
    /\ defaultLocale \in Locales
    /\ \E present \in SUBSET Locales :
          downloaded \in [present -> ReconObjects]
    /\ \A l \in DOMAIN downloaded :
          l # defaultLocale => downloaded[l] \in ReconTranslated
    /\ pulledLocales = downloaded
    /\ reconPc = "pulled"

\* The default locale is missing from the bundle: pullProject returns.
ReconAbort ==
    /\ reconPc = "pulled"
    /\ MissingDefaultLocale(pulledLocales, defaultLocale)
    /\ reconPc' = "aborted"
    /\ UNCHANGED <<localTranslations, downloaded, pulledLocales>>

\* The two loops over the added and the removed keys.
ReconApply ==
    /\ reconPc = "pulled"
    /\ ~MissingDefaultLocale(pulledLocales, defaultLocale)
    /\ pulledLocales' = Reconcile(localTranslations, pulledLocales, defaultLocale)
    /\ reconPc' = "reconciled"
    /\ UNCHANGED <<localTranslations, downloaded>>

InitNormIdle ==
    /\ json = <<>>
    /\ allowedKeys = {}
    /\ cleanJson = <<>>
    /\ cleanJson2 = <<>>
    /\ normPc = "idle"

NextRecon ==
    \/ ReconAbort /\ UNCHANGED <<normVars, defaultLocale, dirVars, runVars>>
    \/ ReconApply /\ UNCHANGED <<normVars, defaultLocale, dirVars, runVars>>

InitSpecRecon == InitRecon /\ InitNormIdle /\ InitDirIdle /\ InitRunIdle
SpecRecon == InitSpecRecon /\ [][NextRecon]_vars

\* C1: with L the keys of the local reference and R the keys the bundle's
\* default locale was downloaded with, after the reconciliation (a) no key of
\* R - L is in any locale of the bundle, (b) every key of L - R is in the
\* default locale with the local reference's value, and the keys of L \cap R
\* are in each locale exactly as downloaded.
C1_Reconciled ==
    reconPc = "reconciled" =>
        LET L == KeySet(localTranslations)
            R == KeySet(downloaded[defaultLocale])
        IN /\ DOMAIN pulledLocales = DOMAIN downloaded
           /\ \A l \in DOMAIN pulledLocales : \A k \in R \ L :
                 ~ObjHas(pulledLocales[l], k)
           /\ \A k \in L \ R :
                 /\ ObjHas(pulledLocales[defaultLocale], k)
                 /\ ObjGet(pulledLocales[defaultLocale], k)
                       = ObjGet(localTranslations, k)
           /\ \A l \in DOMAIN pulledLocales : \A k \in L \cap R :
                 /\ ObjHas(pulledLocales[l], k) <=> ObjHas(downloaded[l], k)
                 /\ ObjHas(downloaded[l], k) =>
                       ObjGet(pulledLocales[l], k) = ObjGet(downloaded[l], k)

\* Witness of C1: a reconciliation with a key added locally, a key removed
\* locally that another locale had translated, and a key on both sides whose
\* remote text differs from the local one.
C1_Witness ==
    /\ reconPc = "reconciled"
    /\ LET L == KeySet(localTranslations)
           R == KeySet(downloaded[defaultLocale])
       IN /\ L \ R # {}
          /\ \E l \in DOMAIN downloaded \ {defaultLocale} :
                \E k \in R \ L : ObjHas(downloaded[l], k)
          /\ \E k \in L \cap R :
                ObjGet(downloaded[defaultLocale], k) # ObjGet(localTranslations, k)

----------------------------------------------------------------------------
(* cleanupProject, lintProject *)

\* The locale file every command reads as the reference: the path is spelled
\* "en.json", whatever the project's defaultLocale.
ReferenceFile == "en"

\* A locale directory maps each locale that has a <locale>.json file to the
\* file's text.
cleanupProject(dir) ==
    LET allowed == KeySet(JSONparse(dir[ReferenceFile]))
    IN [l \in DOMAIN dir |->
          LET rawFile == dir[l]
              nextRawFile == JSONstringify(cleanupJson(JSONparse(rawFile), allowed))
          IN IF rawFile # nextRawFile THEN nextRawFile ELSE rawFile]

\* parse(value) of @formatjs/icu-messageformat-parser throws.  Over texts of
\* letters, digits, whitespace and braces: a "{" opens an argument, which is
\* optional whitespace, a name, optional whitespace and "}"; anything else
\* there, or the end of the text, is an error; a "}" outside an argument is
\* literal text.
IsNameChar(c) == c \in {"a", "b", "c", "x", "0", "1", "9"}
RECURSIVE SkipName(_)
SkipName(v) == IF v # <<>> /\ IsNameChar(Head(v)) THEN SkipName(Tail(v)) ELSE v
RECURSIVE ParseThrows(_)
ParseThrows(v) ==
    IF v = <<>> THEN FALSE
    ELSE IF Head(v) # "{" THEN ParseThrows(Tail(v))
    ELSE LET name == StripLeading(Tail(v))
             rest == StripLeading(SkipName(name))
         IN \/ SkipName(name) = name
            \/ rest = <<>>
            \/ Head(rest) # "}"
            \/ ParseThrows(Tail(rest))

\* lintLocalesFile: the keys whose value does not parse (null when none).
lintLocalesFile(obj) ==
    SelectSeq(ObjKeys(obj), LAMBDA k : ParseThrows(ObjGet(obj, k)))

\* lintProject: isOk
lintProject(dir) ==
    \A l \in DOMAIN dir : lintLocalesFile(JSONparse(dir[l])) = <<>>

----------------------------------------------------------------------------
(* SpecClean: the clean command on one project *)

\* The most characters the values of one locale directory hold in total.
DirMaxChars == 3
DirKeys == {<<"a">>, <<"b">>}

RawKeys(raw) == {raw[i][1] : i \in 1..Len(raw)}
DirChars(dir) ==
    LET RECURSIVE Sum(_)
        Sum(ls) == IF ls = {} THEN 0
                   ELSE LET l == CHOOSE x \in ls : TRUE
                        IN SumLen(dir[l]) + Sum(ls \ {l})
    IN Sum(DOMAIN dir)

InitClean ==
    /\ defaultLocale \in Locales
    /\ localesDir = [l \in Locales |-> <<>>]
    /\ dirBefore = localesDir
    /\ cleanRuns = 0
    /\ sources = <<>>
    /\ scan = NoScan

\* A developer or a translator adds a key at the end of a locale file.
EditAddKey(l, k) ==
    /\ cleanRuns = 0
    /\ k \notin RawKeys(localesDir[l])
    /\ localesDir' = [localesDir EXCEPT ![l] = Append(@, <<k, <<>>>>)]
    /\ UNCHANGED <<dirBefore, cleanRuns, sources, scan>>

\* A developer or a translator types one more character of a text.
EditType(l, i, c) ==
    /\ cleanRuns = 0
    /\ i \in 1..Len(localesDir[l])
    /\ DirChars(localesDir) < DirMaxChars
    /\ localesDir' = [localesDir EXCEPT ![l][i][2] = Append(@, c)]
    /\ UNCHANGED <<dirBefore, cleanRuns, sources, scan>>

\* The clean command's step for the project (run at most twice here).
Clean ==
    /\ cleanRuns < 2
    /\ dirBefore' = localesDir
    /\ localesDir' = cleanupProject(localesDir)
    /\ cleanRuns' = cleanRuns + 1
    /\ UNCHANGED <<sources, scan>>

NextClean ==
    \/ \E l \in Locales, k \in DirKeys :
          EditAddKey(l, k) /\ UNCHANGED <<normVars, reconVars, defaultLocale, runVars>>
    \/ \E l \in Locales, i \in 1..Cardinality(DirKeys), c \in ValueChars :
          EditType(l, i, c) /\ UNCHANGED <<normVars, reconVars, defaultLocale, runVars>>
    \/ Clean /\ UNCHANGED <<normVars, reconVars, defaultLocale, runVars>>

InitSpecClean == InitNormIdle /\ InitReconIdle /\ InitClean /\ InitRunIdle
SpecClean == InitSpecClean /\ [][NextClean]_vars

\* C2 as claimed: after clean, every locale file holds only keys of the locale
\* file of the project's configured defaultLocale.
C2_OnlyDefaultLocaleKeys ==
    cleanRuns >= 1 =>
        \A l \in DOMAIN localesDir :
            RawKeys(localesDir[l]) \subseteq RawKeys(localesDir[defaultLocale])

\* What the code does keep: after clean, every locale file holds only keys of
\* en.json.
CleanOnlyReferenceFileKeys ==
    cleanRuns >= 1 =>
        \A l \in DOMAIN localesDir :
            RawKeys(localesDir[l]) \subseteq RawKeys(localesDir[ReferenceFile])

\* The consequence C10 draws for the clean command: a second clean in a row
\* leaves every locale file as the first one left it.
CleanTwiceUnchanged == cleanRuns = 2 => localesDir = dirBefore

----------------------------------------------------------------------------
(* findUnusedInProject, onlyKeepKeysInJson, findAndRemoveUnusedInProject *)

EOL == <<"\n">>

\* globSync(...).reduce((acc, file) => acc + readFileSync(file) + os.EOL, "")
RECURSIVE ConcatSources(_)
ConcatSources(files) ==
    IF files = <<>> THEN <<>>
    ELSE Head(files) \o EOL \o ConcatSources(Tail(files))

\* key.split(".")
RECURSIVE Split(_, _)
Split(k, current) ==
    IF k = <<>> THEN <<current>>
    ELSE IF Head(k) = "." THEN <<current>> \o Split(Tail(k), <<>>)
    ELSE Split(Tail(k), Append(current, Head(k)))

\* segments.slice(0, -n)
SliceOff(segments, n) ==
    IF Len(segments) > n THEN SubSeq(segments, 1, Len(segments) - n) ELSE <<>>

\* segments.join(".")
RECURSIVE Join(_)
Join(segments) ==
    IF segments = <<>> THEN <<>>
    ELSE IF Len(segments) = 1 THEN segments[1]
    ELSE segments[1] \o <<".">> \o Join(Tail(segments))

\* key.split(".").slice(0, -1).join(".") + ".${"
variantKey1(key) == Join(SliceOff(Split(key, <<>>), 1)) \o <<".", "$", "{">>
\* A variant of the second prefix that drops three segments.
variantKey3(key) == Join(SliceOff(Split(key, <<>>), 3)) \o <<".", "$", "{">>
\* key.split(".").slice(0, -2).join(".") + ".${"
variantKey2(key) == Join(SliceOff(Split(key, <<>>), 2)) \o <<".", "$", "{">>

\* The predicate of refrenceKeys.filter: the key is reported unused.
IsUnused(key, text) ==
    /\ ~Includes(text, <<"\"">> \o key \o <<"\"">>)
    /\ ~Includes(text, <<Backtick>> \o key \o <<Backtick>>)
    /\ ~Includes(text, <<"'">> \o key \o <<"'">>)
    /\ ~Includes(text, <<Backtick>> \o variantKey1(key))
    /\ ~Includes(text, <<Backtick>> \o variantKey2(key))

\* findUnusedInProject: {keptKeys, unusedKeys}
findUnusedInProject(dir, files) ==
    LET refrenceKeys == ObjKeys(JSONparse(dir[ReferenceFile]))
        text == ConcatSources(files)
        unused == SelectSeq(refrenceKeys, LAMBDA key : IsUnused(key, text))
    IN [keptKeys |-> {refrenceKeys[i] : i \in 1..Len(refrenceKeys)}
                        \ {unused[i] : i \in 1..Len(unused)},
        unusedKeys |-> unused]

\* onlyKeepKeysInJson: the file's text after the rewrite.
onlyKeepKeysInJson(rawFile, keysToKeep) ==
    LET obj == JSONparse(rawFile)
        RECURSIVE Keep(_, _)
        Keep(acc, keys) ==
            IF keys = <<>> THEN acc
            ELSE IF Head(keys) \in keysToKeep
                 THEN Keep(ObjSet(acc, Head(keys), ObjGet(obj, Head(keys))), Tail(keys))
                 ELSE Keep(acc, Tail(keys))
    IN JSONstringify(Keep(<<>>, ObjKeys(obj)))

----------------------------------------------------------------------------
(* SpecUnused: the remove-unused command on one project *)

\* The most tokens and line ends the project's source files hold in total.
MaxSource == 5

\* What a developer types into a source file; "${" opens an interpolation.
SourceTokens ==
    {<<"\"">>, <<"'">>, <<Backtick>>, <<"a">>, <<"b">>, <<".">>, <<"$", "{">>}

\* The reference en.json, and a translation that also holds a key the
\* reference does not.
UnusedReference ==
    << <<<<"a">>, <<"x">>>>,
       <<<<"a", ".", "b">>, <<"x">>>>,
       <<<<"a", ".", "b", ".", "c">>, <<"x">>>> >>
UnusedTranslation ==
    << <<<<"a">>, <<"y">>>>,
       <<<<"a", ".", "b">>, <<"y">>>>,
       <<<<"b">>, <<"y">>>>,
       <<<<"a", ".", "b", ".", "c">>, <<"y">>>> >>

InitUnused ==
    /\ defaultLocale = "en"
    /\ localesDir = [l \in Locales |->
                        IF l = ReferenceFile THEN UnusedReference
                        ELSE UnusedTranslation]
    /\ dirBefore = localesDir
    /\ cleanRuns = 0
    /\ sources = <<>>
    /\ scan = NoScan

\* The source size is kept as the files' count plus their tokens' count.
SourceSize(files) ==
    LET RECURSIVE Tokens(_)
        Tokens(text) ==
            IF text = <<>> THEN 0
            ELSE IF Head(text) = "$" THEN Tokens(Tail(text))
            ELSE 1 + Tokens(Tail(text))
    IN Tokens(ConcatSources(files))

\* A developer adds a source file.
SourceNewFile ==
    /\ scan = NoScan
    /\ SourceSize(sources) < MaxSource
    /\ sources' = Append(sources, <<>>)
    /\ UNCHANGED <<localesDir, dirBefore, cleanRuns, scan>>

\* A developer types a token at the end of the newest source file.
SourceType(token) ==
    /\ scan = NoScan
    /\ sources # <<>>
    /\ SourceSize(sources) < MaxSource
    /\ sources' = [sources EXCEPT ![Len(sources)] = @ \o token]
    /\ UNCHANGED <<localesDir, dirBefore, cleanRuns, scan>>

\* findAndRemoveUnusedInProject
RemoveUnused ==
    /\ scan = NoScan
    /\ scan' = <<findUnusedInProject(localesDir, sources)>>
    /\ dirBefore' = localesDir
    /\ localesDir' = [l \in DOMAIN localesDir |->
                         onlyKeepKeysInJson(localesDir[l], scan'[1].keptKeys)]
    /\ UNCHANGED <<cleanRuns, sources>>

NextUnused ==
    \/ SourceNewFile /\ UNCHANGED <<normVars, reconVars, defaultLocale, runVars>>
    \/ \E token \in SourceTokens :
          SourceType(token) /\ UNCHANGED <<normVars, reconVars, defaultLocale, runVars>>
    \/ RemoveUnused /\ UNCHANGED <<normVars, reconVars, defaultLocale, runVars>>

InitSpecUnused == InitNormIdle /\ InitReconIdle /\ InitUnused /\ InitRunIdle
SpecUnused == InitSpecUnused /\ [][NextUnused]_vars

\* The claim's own reading of "used": k without its last n dot-segments is the
\* text before the n-th last dot of k, and nothing when k has fewer dots.
DotPositions(k) == {i \in 1..Len(k) : k[i] = "."}
WithoutLastSegments(k, n) ==
    LET later(i) == Cardinality({j \in DotPositions(k) : j >= i})
    IN IF Cardinality(DotPositions(k)) < n THEN <<>>
       ELSE LET cut == CHOOSE i \in DotPositions(k) : later(i) = n
            IN SubSeq(k, 1, cut - 1)
Wrapped(k, quote) == <<quote>> \o k \o <<quote>>
ClaimedUsed(k, text) ==
    \/ \E quote \in {"\"", "'", Backtick} : Includes(text, Wrapped(k, quote))
    \/ \E n \in {1, 2} :
          Includes(text, <<Backtick>> \o WithoutLastSegments(k, n) \o <<".", "$", "{">>)

Entries(raw) == {raw[i] : i \in 1..Len(raw)}

\* C7: after remove-unused every locale file holds exactly those of its
\* previous entries whose key is a key of the reference locale that is used
\* (quoted in the sources, or matched by one of its two interpolation
\* prefixes), and the used and unused keys partition the reference keys.
C7_OnlyUsedKeysKept ==
    scan # NoScan =>
        LET text == ConcatSources(sources)
            reference == RawKeys(dirBefore[ReferenceFile])
            unused == {scan[1].unusedKeys[i] : i \in 1..Len(scan[1].unusedKeys)}
        IN /\ \A l \in DOMAIN localesDir :
                 Entries(localesDir[l]) =
                    {e \in Entries(dirBefore[l]) :
                        e[1] \in reference /\ ClaimedUsed(e[1], text)}
           /\ scan[1].keptKeys \cup unused = reference
           /\ scan[1].keptKeys \cap unused = {}
           /\ \A k \in reference : k \in scan[1].keptKeys <=> ClaimedUsed(k, text)

\* Witness of C7: a run that kept "a.b" and "a.b.c" for the interpolation
\* prefix a.${ after a backtick alone, and removed "a" and the key "b" that
\* is not in the reference.
C7_Witness ==
    /\ scan # NoScan
    /\ sources = << <<Backtick, "a", ".", "$", "{">> >>
    /\ scan[1].keptKeys = {<<"a", ".", "b">>, <<"a", ".", "b", ".", "c">>}
    /\ scan[1].unusedKeys = << <<"a">> >>
    /\ Len(dirBefore["fr"]) = 4
    /\ Len(localesDir["fr"]) = 2

----------------------------------------------------------------------------
(* Spec: a run of the pull, push or sync command.                           *)
(*                                                                          *)
(* The command's action is one async loop over the projects ("main"); each  *)
(* call of pushProject is an async task of its own.  JavaScript runs one    *)
(* task at a time up to its next await, so a response or a timer is only    *)
(* delivered when no task can run.  The timers of preventRateLimiting all   *)
(* last one second, so they fire in the order they were started.            *)

\* The projects of lokalise.config.js.
NumProjects == 2
Projects == 1..NumProjects
Commands == {"pull", "push", "sync"}

\* The defaultLocale of every project in the runs drawn here.
RunDefaultLocale == "en"

RunKey == <<"a">>
GoodFile == << <<RunKey, <<"x">>>> >>
BadFile == << <<RunKey, <<"{">>>> >>

\* The locale directories a run starts with: en.json with a text that parses
\* or one that does not, with or without a translation.
RunDirs ==
    { [l \in {"en"} |-> GoodFile],
      [l \in {"en"} |-> BadFile],
      [l \in Locales |-> GoodFile] }

\* The bundles a download answers with: the reference alone, with a
\* translation that parses or does not, without the key, or a bundle that
\* lacks the default locale.
RunBundles ==
    { [l \in {"en"} |-> GoodFile],
      [l \in {"en"} |-> <<>>],
      [l \in Locales |-> GoodFile],
      [l \in Locales |-> IF l = "fr" THEN BadFile ELSE GoodFile],
      [l \in {"fr"} |-> GoodFile] }

\* fs.readdirSync(localesDir).filter(... ".json"): the locales in name order.
LocaleOrder == <<"en", "fr">>
ReadDir(dir) == SelectSeq(LocaleOrder, LAMBDA l : l \in DOMAIN dir)

\* The loop of fs.writeFileSync over the pulled locales.
WritePulled(dir, pulled) ==
    [l \in DOMAIN dir \cup DOMAIN pulled |->
        IF l \in DOMAIN pulled THEN JSONstringify(pulled[l]) ELSE dir[l]]

Main == 0
Step(p, names) == [steps EXCEPT ![p] = @ \o names]

\* No task can run: main and every pushProject wait for a response or a timer,
\* or have ended.
NothingRunnable ==
    /\ mainPc \in {"download", "fetch", "delay", "awaitPush", "end", "rejected"}
    /\ \A p \in Projects : push[p].pc \in {"idle", "upload", "delay", "done", "failed"}
    /\ ~(mainPc = "awaitPush" /\ push[cur].pc = "done")

\* A request leaves for the remote service.  It comes too soon when the delay
\* that follows the request before it has not elapsed.
Issue(kind, p, l) ==
    /\ requests' = Append(requests, <<kind, p, l>>)
    /\ tooSoon' = (tooSoon \/ (requests # <<>> /\ ~lastDelayed))
    /\ lastDelayed' = FALSE

\* The place of a request in the order of the requests issued.
RequestIndex(kind, p, l) ==
    CHOOSE i \in 1..Len(requests) : requests[i] = <<kind, p, l>>

InitRun ==
    /\ cmd \in Commands
    /\ proc = "running"
    /\ cur = 1
    /\ mainPc = "loop"
    /\ push = [p \in Projects |-> [pc |-> "idle", queue |-> <<>>]]
    /\ timers = <<>>
    /\ requests = <<>>
    /\ tooSoon = FALSE
    /\ lastDelayed = FALSE
    /\ steps = [p \in Projects |-> <<>>]
    /\ disk \in [Projects -> RunDirs]
    /\ disk0 = disk
    /\ localTranslations = <<>>
    /\ downloaded = <<>>
    /\ pulledLocales = <<>>
    /\ reconPc = "idle"
    /\ defaultLocale = RunDefaultLocale

\* pull, sync: the loop calls pullProject, which reads en.json and asks for
\* the download.
MainPullStart ==
    /\ proc = "running" /\ mainPc = "loop" /\ cur \in Projects
    /\ cmd \in {"pull", "sync"}
    /\ localTranslations' = JSONparse(disk[cur][ReferenceFile])
    /\ Issue("download", cur, "bundle")
    /\ steps' = Step(cur, <<"download">>)
    /\ mainPc' = "download"
    /\ UNCHANGED <<cmd, proc, cur, push, timers, disk, disk0, pulledLocales>>

\* push: the loop calls pushProject and awaits it.
MainPushStart ==
    /\ proc = "running" /\ mainPc = "loop" /\ cur \in Projects
    /\ cmd = "push"
    /\ push' = [push EXCEPT ![cur].pc = "clean"]
    /\ mainPc' = "awaitPush"
    /\ UNCHANGED <<cmd, proc, cur, timers, requests, tooSoon, lastDelayed, steps,
                   disk, disk0, localTranslations, pulledLocales>>

\* The loop is over.
MainEnd ==
    /\ proc = "running" /\ mainPc = "loop" /\ cur \notin Projects
    /\ mainPc' = "end"
    /\ UNCHANGED <<cmd, proc, cur, push, timers, requests, tooSoon, lastDelayed,
                   steps, disk, disk0, localTranslations, pulledLocales>>

\* The download is answered: pullProject opens the write stream and asks for
\* the archive at bundle_url.
DownloadOk ==
    /\ proc = "running" /\ mainPc = "download" /\ NothingRunnable
    /\ steps' = Step(cur, <<"fetch">>)
    /\ mainPc' = "fetch"
    /\ UNCHANGED <<cmd, proc, cur, push, timers, requests, tooSoon, lastDelayed,
                   disk, disk0, localTranslations, pulledLocales>>

\* The archive is written and its stream closed: pullProject starts the delay
\* that follows the download.
FetchOk(bundle) ==
    /\ proc = "running" /\ mainPc = "fetch" /\ NothingRunnable
    /\ pulledLocales' = bundle
    /\ timers' = Append(timers, <<Main, RequestIndex("download", cur, "bundle")>>)
    /\ mainPc' = "delay"
    /\ UNCHANGED <<cmd, proc, cur, push, requests, tooSoon, lastDelayed, steps,
                   disk, disk0, localTranslations>>

\* The fetch of the archive fails: the write stream's error rejects
\* pullProject, the request's own error is thrown out of the event loop.
\* Nothing handles either: Node ends the process, or for the rejection and
\* before version 15 only warns.
FetchFail(ends) ==
    /\ proc = "running" /\ mainPc = "fetch" /\ NothingRunnable
    /\ steps' = Step(cur, <<"fail">>)
    /\ mainPc' = "rejected"
    /\ proc' = IF ends THEN "crashed" ELSE proc
    /\ UNCHANGED <<cmd, cur, push, timers, requests, tooSoon, lastDelayed,
                   disk, disk0, localTranslations, pulledLocales>>

\* The download fails: pullProject rejects, and so does the awaiting loop.
\* Nothing handles the rejection: Node ends the process, or before version 15
\* only warns.
DownloadFail(ends) ==
    /\ proc = "running" /\ mainPc = "download" /\ NothingRunnable
    /\ steps' = Step(cur, <<"fail">>)
    /\ mainPc' = "rejected"
    /\ proc' = IF ends THEN "crashed" ELSE proc
    /\ UNCHANGED <<cmd, cur, push, timers, requests, tooSoon, lastDelayed,
                   disk, disk0, localTranslations, pulledLocales>>

\* The oldest timer of preventRateLimiting fires and its task goes on.
DelayElapsed ==
    /\ proc = "running" /\ timers # <<>> /\ NothingRunnable
    /\ LET owner == Head(timers)[1]
           req == Head(timers)[2]
       IN /\ lastDelayed' = (lastDelayed \/ req = Len(requests))
          /\ IF owner = Main
             THEN mainPc' = "reconcile" /\ push' = push
             ELSE mainPc' = mainPc /\ push' = [push EXCEPT ![owner].pc = "next"]
    /\ timers' = Tail(timers)
    /\ UNCHANGED <<cmd, proc, cur, requests, tooSoon, steps, disk, disk0,
                   localTranslations, pulledLocales>>

\* What follows the return of pullProject: the pull command's loop goes to
\* the next project, syncProject calls pushProject.
AfterPull ==
    IF cmd = "sync"
    THEN /\ push' = [push EXCEPT ![cur].pc = "clean"]
         /\ mainPc' = "callPush"
         /\ cur' = cur
    ELSE /\ push' = push
         /\ mainPc' = "loop"
         /\ cur' = cur + 1

\* The rest of pullProject after the delay: the bundle lacks the default
\* locale and pullProject returns.
PullAbort ==
    /\ proc = "running" /\ mainPc = "reconcile"
    /\ MissingDefaultLocale(pulledLocales, defaultLocale)
    /\ steps' = Step(cur, <<"abort">>)
    /\ AfterPull
    /\ UNCHANGED <<cmd, proc, timers, requests, tooSoon, lastDelayed, disk, disk0,
                   localTranslations, pulledLocales>>

\* The rest of pullProject after the delay: reconcile, write the files,
\* cleanupProject, lintProject, and process.exit(1) when the lint fails.
PullFinish ==
    /\ proc = "running" /\ mainPc = "reconcile"
    /\ ~MissingDefaultLocale(pulledLocales, defaultLocale)
    /\ LET pulled == Reconcile(localTranslations, pulledLocales, defaultLocale)
           dir == cleanupProject(WritePulled(disk[cur], pulled))
       IN /\ pulledLocales' = pulled
          /\ disk' = [disk EXCEPT ![cur] = dir]
          /\ IF lintProject(dir)
             THEN /\ steps' = Step(cur, <<"write", "clean", "lint:ok">>)
                  /\ proc' = proc
                  /\ AfterPull
             ELSE /\ steps' = Step(cur, <<"write", "clean", "lint:fail">>)
                  /\ proc' = "exit1"
                  /\ UNCHANGED <<push, mainPc, cur>>
    /\ UNCHANGED <<cmd, timers, requests, tooSoon, lastDelayed, disk0,
                   localTranslations>>

\* pushProject: cleanupProject(project)
PushClean(p) ==
    /\ proc = "running" /\ push[p].pc = "clean"
    /\ disk' = [disk EXCEPT ![p] = cleanupProject(disk[p])]
    /\ steps' = Step(p, <<"push:clean">>)
    /\ push' = [push EXCEPT ![p].pc = "lint"]
    /\ UNCHANGED <<cmd, proc, cur, mainPc, timers, requests, tooSoon, lastDelayed,
                   disk0, localTranslations, pulledLocales>>

\* A variant of pushProject that goes on to the uploads whatever the lint says.
PushLintNoExit(p) ==
    /\ proc = "running" /\ push[p].pc = "lint"
    /\ steps' = Step(p, <<IF lintProject(disk[p]) THEN "push:lint:ok" ELSE "push:lint:fail">>)
    /\ push' = [push EXCEPT ![p] = [pc |-> "next", queue |-> ReadDir(disk[p])]]
    /\ UNCHANGED <<cmd, proc, cur, mainPc, timers, requests, tooSoon, lastDelayed,
                   disk, disk0, localTranslations, pulledLocales>>

\* pushProject: process.exit(1) when lintProject fails, else the files to
\* upload are listed.
PushLint(p) ==
    /\ proc = "running" /\ push[p].pc = "lint"
    /\ IF lintProject(disk[p])
       THEN /\ steps' = Step(p, <<"push:lint:ok">>)
            /\ push' = [push EXCEPT ![p] = [pc |-> "next", queue |-> ReadDir(disk[p])]]
            /\ proc' = proc
       ELSE /\ steps' = Step(p, <<"push:lint:fail">>)
            /\ push' = push
            /\ proc' = "exit1"
    /\ UNCHANGED <<cmd, cur, mainPc, timers, requests, tooSoon, lastDelayed,
                   disk, disk0, localTranslations, pulledLocales>>

\* pushProject: the next turn of the loop over the files reads the file and
\* asks for its upload; after the last file pushProject returns.
PushNext(p) ==
    /\ proc = "running" /\ push[p].pc = "next"
    /\ IF push[p].queue = <<>>
       THEN /\ push' = [push EXCEPT ![p].pc = "done"]
            /\ UNCHANGED <<requests, tooSoon, lastDelayed, steps>>
       ELSE /\ Issue("upload", p, Head(push[p].queue))
            /\ steps' = Step(p, <<"upload">>)
            /\ push' = [push EXCEPT ![p].pc = "upload"]
    /\ UNCHANGED <<cmd, proc, cur, mainPc, timers, disk, disk0,
                   localTranslations, pulledLocales>>

\* The upload succeeds: pushProject starts the delay.
UploadOk(p) ==
    /\ proc = "running" /\ push[p].pc = "upload" /\ NothingRunnable
    /\ push' = [push EXCEPT ![p] = [pc |-> "delay", queue |-> Tail(@.queue)]]
    /\ timers' = Append(timers, <<p, RequestIndex("upload", p, Head(push[p].queue))>>)
    /\ UNCHANGED <<cmd, proc, cur, mainPc, requests, tooSoon, lastDelayed, steps,
                   disk, disk0, localTranslations, pulledLocales>>

\* The upload fails: pushProject rejects.  The push command's loop awaits it
\* and rejects too; syncProject does not await it.  Nothing handles the
\* rejection: Node ends the process, or before version 15 only warns.
UploadFail(p, ends) ==
    /\ proc = "running" /\ push[p].pc = "upload" /\ NothingRunnable
    /\ push' = [push EXCEPT ![p].pc = "failed"]
    /\ steps' = Step(p, <<"fail">>)
    /\ mainPc' = IF mainPc = "awaitPush" /\ cur = p THEN "rejected" ELSE mainPc
    /\ proc' = IF ends THEN "crashed" ELSE proc
    /\ UNCHANGED <<cmd, cur, timers, requests, tooSoon, lastDelayed,
                   disk, disk0, localTranslations, pulledLocales>>

\* sync: pushProject has reached its first await or returned; syncProject
\* returns without awaiting it and the loop goes to the next project.
\* push: the awaited pushProject has returned.
MainAfterPush ==
    /\ proc = "running"
    /\ \/ mainPc = "callPush" /\ push[cur].pc \in {"upload", "done"}
       \/ mainPc = "awaitPush" /\ push[cur].pc = "done"
    /\ mainPc' = "loop"
    /\ cur' = cur + 1
    /\ UNCHANGED <<cmd, proc, push, timers, requests, tooSoon, lastDelayed, steps,
                   disk, disk0, localTranslations, pulledLocales>>

\* Nothing is left to run or to wait for: the process ends with status 0.
ProcessEnds ==
    /\ proc = "running" /\ mainPc \in {"end", "rejected"}
    /\ \A p \in Projects : push[p].pc \in {"idle", "done", "failed"}
    /\ proc' = "exit0"
    /\ UNCHANGED <<cmd, cur, mainPc, push, timers, requests, tooSoon, lastDelayed,
                   steps, disk, disk0, localTranslations, pulledLocales>>

runFrame == <<normVars, downloaded, reconPc, defaultLocale, dirVars>>

Next ==
    \/ MainPullStart /\ UNCHANGED runFrame
    \/ MainPushStart /\ UNCHANGED runFrame
    \/ MainEnd /\ UNCHANGED runFrame
    \/ DownloadOk /\ UNCHANGED runFrame
    \/ \E bundle \in RunBundles : FetchOk(bundle) /\ UNCHANGED runFrame
    \/ \E ends \in BOOLEAN : FetchFail(ends) /\ UNCHANGED runFrame
    \/ \E ends \in BOOLEAN : DownloadFail(ends) /\ UNCHANGED runFrame
    \/ DelayElapsed /\ UNCHANGED runFrame
    \/ PullAbort /\ UNCHANGED runFrame
    \/ PullFinish /\ UNCHANGED runFrame
    \/ \E p \in Projects : PushClean(p) /\ UNCHANGED runFrame
    \/ \E p \in Projects : PushLint(p) /\ UNCHANGED runFrame
    \/ \E p \in Projects : PushNext(p) /\ UNCHANGED runFrame
    \/ \E p \in Projects : UploadOk(p) /\ UNCHANGED runFrame
    \/ \E p \in Projects, ends \in BOOLEAN : UploadFail(p, ends) /\ UNCHANGED runFrame
    \/ MainAfterPush /\ UNCHANGED runFrame
    \/ ProcessEnds /\ UNCHANGED runFrame

Init == InitNormIdle /\ InitDirIdle /\ InitRun
Spec == Init /\ [][Next]_vars

\* The positions of a step in the log of a project.
StepsAt(p, name) == {i \in 1..Len(steps[p]) : steps[p][i] = name}
Did(p, name) == StepsAt(p, name) # {}

\* C3: pushProject cleans the project, then lints it, then uploads; when the
\* lint reports an error no file of the project is uploaded and the process
\* exits with status 1.
C3_CleanLintUpload ==
    \A p \in Projects :
        /\ \A i \in StepsAt(p, "upload") :
              \E j \in StepsAt(p, "push:lint:ok") :
                  j < i /\ \E k \in StepsAt(p, "push:clean") : k < j
        /\ \A j \in StepsAt(p, "push:lint:ok") \cup StepsAt(p, "push:lint:fail") :
              \E k \in StepsAt(p, "push:clean") : k < j
        /\ Did(p, "push:lint:fail") =>
              /\ ~Did(p, "upload")
              /\ proc = "exit1"
              /\ \A i \in 1..Len(requests) :
                    ~(requests[i][1] = "upload" /\ requests[i][2] = p)

\* A push in which one project was uploaded after a clean lint and the next
\* one failed the lint.
C3_Witness ==
    /\ cmd = "push"
    /\ proc = "exit1"
    /\ Did(1, "upload") /\ Did(1, "push:lint:ok")
    /\ Did(2, "push:lint:fail")

\* C4: when the bundle lacks the default locale, pull and sync abort the
\* project: no file is written and no clean, lint or upload runs for it,
\* while the remaining projects are still processed.
C4_MissingDefaultLocaleAborts ==
    \A p \in Projects :
        Did(p, "abort") =>
            /\ disk[p] = disk0[p]
            /\ steps[p] = <<"download", "fetch", "abort">>
            /\ proc = "exit0" => \A q \in Projects : q > p => steps[q] # <<>>

\* C5: in pull, push and sync a completed one-second delay separates every
\* two consecutive requests to the remote service.
C5_DelayBetweenRequests == tooSoon = FALSE

\* A request of a project and the requests that repeat it.
Repeats(i) ==
    {j \in 1..Len(requests) : j # i /\ requests[j] = requests[i]}

\* C6: a failed remote request is not retried and aborts only the operation
\* of its project; the remaining projects are still processed.
C6_FailureAbortsOnlyItsProject ==
    \A p \in Projects :
        Did(p, "fail") =>
            /\ \A i \in 1..Len(requests) : Repeats(i) = {}
            /\ proc \in {"exit0", "crashed"} =>
                  \A q \in Projects : q > p => steps[q] # <<>>

\* pushProject of a project is still at work.
Pushing(p) == push[p].pc \notin {"idle", "done", "failed"}

\* C8: the projects are processed strictly one at a time, all uploads of a
\* project included, and in sync the push of a project follows its pull.
C8_OneProjectAtATime ==
    /\ \A p, q \in Projects : (p < q /\ steps[q] # <<>>) => ~Pushing(p)
    /\ \A p \in Projects :
          \A i \in StepsAt(p, "push:clean") :
              cmd = "sync" =>
                  \E j \in StepsAt(p, "lint:ok") \cup StepsAt(p, "abort") : j < i

====
